---- MODULE Spec2Model ----
(***************************************************************************)
(* Book and BookList of src/BookList.cpp.                                  *)
(*                                                                         *)
(* A text is a sequence of one-character strings.  A price is a whole      *)
(* number of units of 1/PriceScale (1.0E-5), so that EPSILON (1.0E-4) is   *)
(* ten units and two prices can differ by less than EPSILON without being  *)
(* equal.  Prices stay below 2^31 units.                                   *)
(***************************************************************************)
EXTENDS Integers, Sequences, FiniteSets, TLC

VARIABLES
  capacity,          \* BookList::_capacity of the list L
  books_array_size,  \* BookList::_books_array_size of L
  bookArray,         \* BookList::_bookArray of L, a function on 0 .. capacity-1
  book,              \* the Book a single-record read writes to
  sstream,           \* the text stream of the single-record reads and writes
  last               \* the last operation: its name, arguments and result

vars == <<capacity, books_array_size, bookArray, book, sstream, last>>

-----------------------------------------------------------------------------
(* Characters and numbers *)

DQ == "\""
BS == "\\"
NL == "\n"
NoChar == "none"

PriceScale == 10^5

\* EPSILON = 1.0E-4, in price units
EPSILON == PriceScale \div 10^4

\* the precision of a default-constructed output stream: 6 significant digits
Precision == 6

DigitChars == <<"0", "1", "2", "3", "4", "5", "6", "7", "8", "9">>

IsDigit(c) == \E d \in 1..10 : DigitChars[d] = c

DigitVal(c) == (CHOOSE d \in 1..10 : DigitChars[d] = c) - 1

IsSpace(c) == c \in {" ", NL}

Abs(x) == IF x < 0 THEN -x ELSE x

Min(a, b) == IF a < b THEN a ELSE b

RECURSIVE NumDigits(_)
NumDigits(n) == IF n < 10 THEN 1 ELSE 1 + NumDigits(n \div 10)

RECURSIVE DigitsOf(_)
DigitsOf(n) ==
  IF n < 10 THEN <<DigitChars[n + 1]>>
  ELSE Append(DigitsOf(n \div 10), DigitChars[(n % 10) + 1])

RECURSIVE Zeros(_)
Zeros(k) == IF k <= 0 THEN <<>> ELSE <<"0">> \o Zeros(k - 1)

RECURSIVE StripZeros(_)
StripZeros(t) ==
  IF Len(t) > 0 /\ t[Len(t)] = "0" THEN StripZeros(SubSeq(t, 1, Len(t) - 1)) ELSE t

-----------------------------------------------------------------------------
(* Book *)

Book(title, author, isbn, price) ==
  [isbn |-> isbn, title |-> title, author |-> author, price |-> price]

DefaultBook == Book(<<>>, <<>>, <<>>, 0)

\* operator==(const Book&, const Book&)
BookEq(lhs, rhs) ==
  /\ lhs.isbn = rhs.isbn
  /\ lhs.title = rhs.title
  /\ lhs.author = rhs.author
  /\ Abs(lhs.price - rhs.price) < EPSILON

\* operator!=(const Book&, const Book&)
BookNe(lhs, rhs) == ~BookEq(lhs, rhs)

-----------------------------------------------------------------------------
(* Text streams: the buffer, the read position, failbit and eofbit *)

IStream(text) == [buf |-> text, pos |-> 1, fail |-> FALSE, eof |-> FALSE]

\* a file that could not be opened: std::ifstream sets failbit
FailedStream == [buf |-> <<>>, pos |-> 1, fail |-> TRUE, eof |-> FALSE]

\* stream.good()
Good(s) == ~s.fail /\ ~s.eof

\* if (stream), while (stream): !stream.fail()
Ok(s) == ~s.fail

SetFail(s) == [s EXCEPT !.fail = TRUE]

RECURSIVE SkipFrom(_, _)
SkipFrom(buf, p) ==
  IF p <= Len(buf) /\ IsSpace(buf[p]) THEN SkipFrom(buf, p + 1) ELSE p

\* stream >> char: the sentry fails a stream that is not good, skips white
\* space when skipws is set, and the end of the text sets eofbit and failbit
GetChar(s, skipws) ==
  IF ~Good(s) THEN [s |-> SetFail(s), c |-> NoChar]
  ELSE LET p == IF skipws THEN SkipFrom(s.buf, s.pos) ELSE s.pos
       IN  IF p > Len(s.buf)
           THEN [s |-> [s EXCEPT !.pos = p, !.eof = TRUE, !.fail = TRUE], c |-> NoChar]
           ELSE [s |-> [s EXCEPT !.pos = p + 1], c |-> s.buf[p]]

RECURSIVE WordEnd(_, _)
WordEnd(buf, p) ==
  IF p <= Len(buf) /\ ~IsSpace(buf[p]) THEN WordEnd(buf, p + 1) ELSE p

\* stream >> std::string: one white-space delimited word
WordIn(s, old) ==
  IF ~Good(s) THEN [s |-> SetFail(s), str |-> old]
  ELSE LET p == SkipFrom(s.buf, s.pos)
           e == WordEnd(s.buf, p)
       IN  IF p > Len(s.buf)
           THEN [s |-> [s EXCEPT !.pos = p, !.eof = TRUE, !.fail = TRUE], str |-> <<>>]
           ELSE [s   |-> [s EXCEPT !.pos = e, !.eof = (e > Len(s.buf))],
                 str |-> SubSeq(s.buf, p, e - 1)]

\* the body of a quoted string, read with skipws off: a backslash escapes the
\* next character, the closing quote ends it, the end of the text fails it
RECURSIVE QuotedBody(_, _)
QuotedBody(s, acc) ==
  LET r == GetChar(s, FALSE) IN
  IF ~Good(r.s) THEN [s |-> r.s, str |-> acc]
  ELSE IF r.c = BS
       THEN LET r2 == GetChar(r.s, FALSE) IN
            IF ~Good(r2.s) THEN [s |-> r2.s, str |-> acc]
            ELSE QuotedBody(r2.s, Append(acc, r2.c))
       ELSE IF r.c = DQ THEN [s |-> r.s, str |-> acc]
            ELSE QuotedBody(r.s, Append(acc, r.c))

\* stream >> std::quoted(str)
QuotedIn(s, old) ==
  LET r == GetChar(s, TRUE) IN
  IF ~Good(r.s) THEN [s |-> r.s, str |-> old]
  ELSE IF r.c # DQ
       THEN WordIn([r.s EXCEPT !.pos = r.s.pos - 1], old)
       ELSE QuotedBody(r.s, <<>>)

RECURSIVE EscapeOut(_)
EscapeOut(str) ==
  IF str = <<>> THEN <<>>
  ELSE (IF Head(str) \in {DQ, BS} THEN <<BS, Head(str)>> ELSE <<Head(str)>>)
       \o EscapeOut(Tail(str))

\* stream << std::quoted(str)
QuotedOut(str) == <<DQ>> \o EscapeOut(str) \o <<DQ>>

-----------------------------------------------------------------------------
(* Prices as text *)

CharAt(buf, p) == IF p <= Len(buf) THEN buf[p] ELSE NoChar

\* what the scan of a number has found: the sign, the mantissa digits as a
\* whole number, how many there are and how many follow the point, and the
\* exponent
NoNumber ==
  [neg |-> FALSE, mantissa |-> 0, digits |-> 0, fracDigits |-> 0,
   hasExp |-> FALSE, expNeg |-> FALSE, exponent |-> 0, expDigits |-> 0]

\* the characters a number is made of, taken one by one from position p: an
\* optional sign, digits with at most one decimal point, and after a mantissa
\* digit an e or E, an optional sign and digits; the scan stops at the first
\* character that does not fit
RECURSIVE ScanFloat(_, _, _, _)
ScanFloat(buf, p, part, acc) ==
  LET c == CharAt(buf, p) IN
  IF part = "sign"
  THEN IF c \in {"+", "-"}
       THEN ScanFloat(buf, p + 1, "int", [acc EXCEPT !.neg = (c = "-")])
       ELSE ScanFloat(buf, p, "int", acc)
  ELSE IF part \in {"int", "frac"} /\ IsDigit(c)
  THEN ScanFloat(buf, p + 1, part,
                 [acc EXCEPT !.mantissa = 10 * acc.mantissa + DigitVal(c),
                             !.digits = acc.digits + 1,
                             !.fracDigits = IF part = "frac" THEN acc.fracDigits + 1
                                            ELSE acc.fracDigits])
  ELSE IF part = "int" /\ c = "."
  THEN ScanFloat(buf, p + 1, "frac", acc)
  ELSE IF part \in {"int", "frac"} /\ c \in {"e", "E"} /\ acc.digits > 0
  THEN ScanFloat(buf, p + 1, "expSign", [acc EXCEPT !.hasExp = TRUE])
  ELSE IF part = "expSign"
  THEN IF c \in {"+", "-"}
       THEN ScanFloat(buf, p + 1, "exp", [acc EXCEPT !.expNeg = (c = "-")])
       ELSE ScanFloat(buf, p, "exp", acc)
  ELSE IF part = "exp" /\ IsDigit(c)
  THEN ScanFloat(buf, p + 1, "exp",
                 [acc EXCEPT !.exponent = 10 * acc.exponent + DigitVal(c),
                             !.expDigits = acc.expDigits + 1])
  ELSE [end |-> p, num |-> acc]

\* mantissa * 10^shift in price units, to the nearest unit
Scaled(mantissa, shift) ==
  IF shift >= 0 THEN mantissa * 10^shift
  ELSE (mantissa + (10^(-shift)) \div 2) \div 10^(-shift)

\* the number scanned, in price units (PriceScale is 10^5)
ValueOf(num) ==
  LET magnitude == Scaled(num.mantissa,
                          5 + (IF num.expNeg THEN -num.exponent ELSE num.exponent)
                            - num.fracDigits)
  IN  IF num.neg THEN -magnitude ELSE magnitude

\* the scanned text must convert as a whole: it needs a mantissa digit, and
\* an exponent digit after an e; the end of the text sets eofbit
Converted(s, scan) ==
  LET valid == scan.num.digits > 0 /\ (scan.num.hasExp => scan.num.expDigits > 0)
  IN  [s   |-> [s EXCEPT !.pos = scan.end, !.eof = (scan.end > Len(s.buf)),
                         !.fail = ~valid],
       val |-> IF valid THEN ValueOf(scan.num) ELSE 0]

NumberAt(s, p0) ==
  IF p0 > Len(s.buf)
  THEN [s |-> [s EXCEPT !.pos = p0, !.eof = TRUE, !.fail = TRUE], val |-> 0]
  ELSE Converted(s, ScanFloat(s.buf, p0, "sign", NoNumber))

\* stream >> double
ExtractDouble(s) ==
  IF ~Good(s) THEN [s |-> SetFail(s), val |-> 0]
  ELSE NumberAt(s, SkipFrom(s.buf, s.pos))

\* n, of d digits, rounded to Precision significant digits (ties to even)
Rounded(n, d) ==
  IF d <= Precision THEN n * 10^(Precision - d)
  ELSE IF \/ 2 * (n % 10^(d - Precision)) > 10^(d - Precision)
          \/ /\ 2 * (n % 10^(d - Precision)) = 10^(d - Precision)
             /\ (n \div 10^(d - Precision)) % 2 = 1
       THEN (n \div 10^(d - Precision)) + 1
       ELSE n \div 10^(d - Precision)

\* the digits after the point, trailing zeros removed, and no point when
\* none is left
Fraction(digits) ==
  IF StripZeros(digits) = <<>> THEN <<>> ELSE <<".">> \o StripZeros(digits)

\* d.ddddde+xx
Scientific(ds, x) ==
  <<Head(ds)>> \o Fraction(Tail(ds)) \o <<"e", IF x < 0 THEN "-" ELSE "+">>
    \o (IF Abs(x) < 10 THEN <<"0">> ELSE <<>>) \o DigitsOf(Abs(x))

FixedPadded(padded, decimals) ==
  SubSeq(padded, 1, Len(padded) - decimals)
    \o Fraction(SubSeq(padded, Len(padded) - decimals + 1, Len(padded)))

\* ddd.ddd, the digits ds with the point before the last decimals of them
Fixed(ds, decimals) == FixedPadded(Zeros(decimals + 1 - Len(ds)) \o ds, decimals)

\* %g: scientific when the decimal exponent x is below -4 or at least
\* Precision, else fixed
Notation(m, x) ==
  IF x < -4 \/ x >= Precision THEN Scientific(DigitsOf(m), x)
  ELSE Fixed(DigitsOf(m), Precision - 1 - x)

\* m0 is n rounded to Precision digits; rounding up to 10^Precision carries
\* into the exponent
FormatRounded(m0, x0) ==
  IF m0 = 10^Precision THEN Notation(10^(Precision - 1), x0 + 1) ELSE Notation(m0, x0)

\* n > 0 price units, a number of d digits: its decimal exponent is d - 1 - 5
FormatMagnitude(n, d) == FormatRounded(Rounded(n, d), d - 1 - 5)

\* stream << double with the default format: %g with Precision significant
\* digits, trailing zeros removed
FormatPrice(p) ==
  IF p = 0 THEN <<"0">>
  ELSE (IF p < 0 THEN <<"-">> ELSE <<>>) \o FormatMagnitude(Abs(p), NumDigits(Abs(p)))

-----------------------------------------------------------------------------
(* Book: read and write *)

\* stream >> std::quoted(item.field), on the stream and the Book of w
QuotedField(w, field) ==
  LET r == QuotedIn(w.s, w.item[field])
  IN  [s |-> r.s, item |-> [w.item EXCEPT ![field] = r.str]]

\* >> delimiter: any one character
Delimiter(w) == [w EXCEPT !.s = GetChar(w.s, TRUE).s]

\* >> item._price
PriceField(w) ==
  LET r == ExtractDouble(w.s)
  IN  [s |-> r.s, item |-> [w.item EXCEPT !.price = r.val]]

\* stream >> quoted(_isbn) >> delimiter >> quoted(_title) >> delimiter
\*        >> quoted(_author) >> delimiter >> _price, into item
ExtractFields(stream, item) ==
  PriceField(Delimiter(QuotedField(Delimiter(QuotedField(Delimiter(
    QuotedField([s |-> stream, item |-> item], "isbn")), "title")), "author")))

\* ExtractBook without the scratch record: the fields are read into the target
ExtractBookInPlace(stream, target) ==
  LET w == ExtractFields(stream, target)
  IN  [s |-> w.s, book |-> w.item]

\* std::istream& operator>>(std::istream&, Book&)
ExtractBook(stream, target) ==
  LET w == ExtractFields(stream, DefaultBook)
  IN  [s |-> w.s, book |-> IF Ok(w.s) THEN w.item ELSE target]

OutDelimiter == <<",", " ", " ">>

\* std::ostream& operator<<(std::ostream&, const Book&)
FormatBook(b) ==
  QuotedOut(b.isbn) \o OutDelimiter \o QuotedOut(b.title) \o OutDelimiter
    \o QuotedOut(b.author) \o OutDelimiter \o FormatPrice(b.price)

-----------------------------------------------------------------------------
(* BookList *)

\* BookList::BookList(const std::size_t&)
Construct(newSize) ==
  [capacity |-> newSize, size |-> 0, arr |-> [i \in 0 .. newSize - 1 |-> DefaultBook]]

\* what std::move(book) leaves in book: the strings of a moved-from Book are
\* valid but unspecified (emptied by a member-wise move, kept by a copy), and
\* the price, a double, is kept
MovedFrom(b, moved) ==
  IF moved = "emptied" THEN [b EXCEPT !.isbn = <<>>, !.title = <<>>, !.author = <<>>]
  ELSE b

\* the while loop of operator>>(std::istream&, BookList&)
RECURSIVE ExtractLoop(_, _, _, _, _)
RECURSIVE StoreRead(_, _, _, _)
ExtractLoop(stream, list, bk, counter, moved) ==
  IF Ok(stream) /\ counter < list.capacity
  THEN StoreRead(ExtractBook(stream, bk), list, counter, moved)
  ELSE [s |-> stream, list |-> list, counter |-> counter]

\* bookList._bookArray[counter++] = std::move(book), r being the stream and
\* the book after stream >> book
StoreRead(r, list, counter, moved) ==
  ExtractLoop(r.s, [list EXCEPT !.arr[counter] = r.book], MovedFrom(r.book, moved),
              counter + 1, moved)

\* if (counter < bookList._capacity) bookList._books_array_size = counter
SetSizeIfShort(r) ==
  [s    |-> r.s,
   list |-> IF r.counter < r.list.capacity THEN [r.list EXCEPT !.size = r.counter]
            ELSE r.list]

\* std::istream& operator>>(std::istream&, BookList&)
ExtractList(stream, bookList, moved) ==
  SetSizeIfShort(ExtractLoop(stream, bookList, DefaultBook, 0, moved))

\* PlusEqLoop bounded by the capacity of rhs instead of its size
RECURSIVE PlusEqLoopWholeRhs(_, _, _, _)
PlusEqLoopWholeRhs(heap, lhs, rhs, i) ==
  IF heap[lhs].size < heap[lhs].capacity /\ i < heap[rhs].capacity
  THEN PlusEqLoopWholeRhs([heap EXCEPT ![lhs].arr[heap[lhs].size] = heap[rhs].arr[i],
                                       ![lhs].size = heap[lhs].size + 1],
                          lhs, rhs, i + 1)
  ELSE heap

\* the while loop of BookList::operator+=, on the objects of heap: this is
\* heap[lhs] and rhs refers to heap[rhs], which is the same object when
\* lhs = rhs
RECURSIVE PlusEqLoop(_, _, _, _)
PlusEqLoop(heap, lhs, rhs, i) ==
  IF heap[lhs].size < heap[lhs].capacity /\ i < heap[rhs].size
  THEN PlusEqLoop([heap EXCEPT ![lhs].arr[heap[lhs].size] = heap[rhs].arr[i],
                               ![lhs].size = heap[lhs].size + 1],
                  lhs, rhs, i + 1)
  ELSE heap

\* BookList& BookList::operator+=(const BookList&)
PlusEq(heap, lhs, rhs) == PlusEqLoop(heap, lhs, rhs, 0)

\* FindFrom comparing with operator== of Book, the price within EPSILON
RECURSIVE FindFromTolerant(_, _, _, _)
FindFromTolerant(list, b, i, BookListSize) ==
  IF i < BookListSize
  THEN IF BookEq(list.arr[i], b) THEN i
       ELSE FindFromTolerant(list, b, i + 1, BookListSize)
  ELSE BookListSize

\* the for loop of BookList::find
RECURSIVE FindFrom(_, _, _, _)
FindFrom(list, b, i, BookListSize) ==
  IF i < BookListSize
  THEN IF /\ list.arr[i].isbn = b.isbn
          /\ list.arr[i].title = b.title
          /\ list.arr[i].author = b.author
          /\ list.arr[i].price = b.price
       THEN i
       ELSE FindFrom(list, b, i + 1, BookListSize)
  ELSE BookListSize

\* Find scanning every slot of the array instead of [0, size)
FindWholeArray(list, b) == FindFrom(list, b, 0, list.capacity)

\* std::size_t BookList::find(const Book&) const
Find(list, b) == FindFrom(list, b, 0, list.size)

RECURSIVE ReadLoop(_, _, _, _)

\* ReadTest counting every record of the file, also past the capacity
ReadTestNoCap(r, list, i) ==
  IF Ok(r.s)
  THEN ReadLoop(r.s,
                IF i < list.capacity THEN [list EXCEPT !.arr[i] = r.book] ELSE list,
                r.book, i + 1)
  ELSE [list EXCEPT !.size = i]

\* (inFile >> newBook) && (i < _capacity), r being the stream and newBook
\* after the read: _bookArray[i++] = newBook and the loop again, or
\* _books_array_size = i
ReadTest(r, list, i) ==
  IF Ok(r.s) /\ i < list.capacity
  THEN ReadLoop(r.s, [list EXCEPT !.arr[i] = r.book], r.book, i + 1)
  ELSE [list EXCEPT !.size = i]

\* the while loop of BookList::readInFile: the read comes before the test
ReadLoop(inFile, list, newBook, i) == ReadTest(ExtractBook(inFile, newBook), list, i)

\* ReadInFile returning at once, the size as it was, when the file did not open
ReadInFileKeepSize(list, inFile) ==
  IF ~Ok(inFile) THEN list ELSE ReadLoop(inFile, list, DefaultBook, 0)

\* void BookList::readInFile(const std::string&)
ReadInFile(list, inFile) == ReadLoop(inFile, list, DefaultBook, 0)

-----------------------------------------------------------------------------
(* Bounds and inputs *)

\* the largest capacity a list is constructed with
MaxCap == 3

\* a text holds at most one well-formed record more than the largest capacity
MaxRecs == MaxCap + 1

\* 9.99 and 9.99005: equal strings (with a quote, a space and a backslash in
\* them), prices less than EPSILON apart
B1 == Book(<<"a", DQ>>, <<" ", BS>>, <<"1">>, 999000)

B2 == Book(<<"a", DQ>>, <<" ", BS>>, <<"1">>, 999005)

B3 == Book(<<"z">>, <<"z">>, <<"3">>, 1250000)

Catalogue == <<B1, B2>>

\* k well-formed records, in the order of the catalogue from position start
Records(start, k) ==
  [i \in 1 .. k |-> Catalogue[((start + i - 2) % Len(Catalogue)) + 1]]

RECURSIVE Lines(_)
Lines(recs) ==
  IF recs = <<>> THEN <<>>
  ELSE IF Len(recs) = 1 THEN FormatBook(recs[1])
  ELSE FormatBook(Head(recs)) \o <<NL>> \o Lines(Tail(recs))

\* what follows the well-formed records of a text: nothing, a record whose
\* title has no closing quote, or a record whose price is no number (with a
\* well-formed record after it)
Tails == {"end", "quote", "price"}

TailText(tail) ==
  IF tail = "quote" THEN <<DQ, "3", DQ, ",", " ", DQ, "z", "z">>
  ELSE IF tail = "price"
       THEN <<DQ, "3", DQ, ",", DQ, "z", DQ, ",", DQ, "z", DQ, ",", "x", NL>>
            \o FormatBook(B3)
  ELSE <<>>

Text(recs, tail) ==
  Lines(recs) \o (IF recs # <<>> /\ tail # "end" THEN <<NL>> ELSE <<>>) \o TailText(tail)

\* a stream over the text of recs and tail, or one that failed to open
Source(recs, tail, opened) ==
  IF opened THEN IStream(Text(recs, tail)) ELSE FailedStream

\* the list L as one value
L == [capacity |-> capacity, size |-> books_array_size, arr |-> bookArray]

NoLast ==
  [op |-> "none", recs |-> <<>>, tail |-> "end", opened |-> TRUE,
   rhs |-> Construct(0), rhsAfter |-> Construct(0), arg |-> DefaultBook, result |-> 0,
   kind |-> "none", oldBook |-> DefaultBook]

-----------------------------------------------------------------------------
(* The list L and its operations *)

Init ==
  /\ capacity \in 0 .. MaxCap
  /\ books_array_size = 0
  /\ bookArray = Construct(capacity).arr
  /\ book = DefaultBook
  /\ sstream = IStream(<<>>)
  /\ last = NoLast

SetL(list) ==
  /\ capacity' = list.capacity
  /\ books_array_size' = list.size
  /\ bookArray' = list.arr

\* stream >> L, the stream holding a text or having failed before the call
ParseBulk ==
  \E k \in 0 .. MaxRecs, tail \in Tails, opened \in BOOLEAN,
     moved \in {"emptied", "kept"} :
    /\ opened \/ (k = 0 /\ tail = "end" /\ moved = "kept")
    /\ SetL(ExtractList(Source(Records(1, k), tail, opened), L, moved).list)
    /\ last' = [NoLast EXCEPT !.op = "parse", !.recs = Records(1, k), !.tail = tail,
                              !.opened = opened]
    /\ UNCHANGED <<book, sstream>>

\* L.readInFile(filename), the file holding a text or not opening
LoadFromFile ==
  \E start \in 1 .. 2, k \in 0 .. MaxRecs, tail \in Tails, opened \in BOOLEAN :
    /\ opened \/ (k = 0 /\ tail = "end")
    /\ SetL(ReadInFile(L, Source(Records(start, k), tail, opened)))
    /\ last' = [NoLast EXCEPT !.op = "load", !.recs = Records(start, k), !.tail = tail,
                              !.opened = opened]
    /\ UNCHANGED <<book, sstream>>

\* L += R, R another list: one that has loaded k records and is full
\* (capacity k) or has room left (capacity MaxCap)
AppendAll ==
  \E start \in 1 .. 2, k \in 0 .. MaxCap, full \in BOOLEAN :
    \E R \in {ReadInFile(Construct(IF full THEN k ELSE MaxCap),
                         Source(Records(start, k), "end", TRUE))} :
      \E heap \in {PlusEq([this |-> L, other |-> R], "this", "other")} :
        /\ SetL(heap.this)
        /\ last' = [NoLast EXCEPT !.op = "append", !.rhs = R, !.rhsAfter = heap.other]
        /\ UNCHANGED <<book, sstream>>

\* L += L
AppendSelf ==
  /\ SetL(PlusEq([this |-> L], "this", "this").this)
  /\ last' = [NoLast EXCEPT !.op = "appendSelf"]
  /\ UNCHANGED <<book, sstream>>

\* the books find is called with
FindArgs == {B1, B2, B3, DefaultBook, MovedFrom(B1, "emptied")}

\* L.find(b)
FindBook ==
  \E b \in FindArgs :
    /\ last' = [NoLast EXCEPT !.op = "find", !.arg = b, !.result = Find(L, b)]
    /\ UNCHANGED <<capacity, books_array_size, bookArray, book, sstream>>

Next == LoadFromFile \/ ParseBulk \/ AppendAll \/ AppendSelf \/ FindBook

Spec == Init /\ [][Next]_vars

-----------------------------------------------------------------------------
(* Single records: a Book written to a text stream and read back *)

Titles == {<<>>, <<"a">>, <<"x", DQ, " ", "y">>, <<BS, DQ>>}

Authors == {<<"b">>, <<" ", BS>>}

\* 0, 9.99, 9.99005, -0.5, 0.00001, 12345.67 and 1000.123
Prices == {0, 999000, 999005, -50000, 1, 1234567000, 100012300}

Books == {Book(t, a, <<"1">>, p) : t \in Titles, a \in Authors, p \in Prices}

\* texts that are no well-formed record
TextKinds == {"empty", "quote1", "quote2", "short", "price", "nocomma", "nocommaPrice"}

SampleText(kind) ==
  IF kind = "quote1" THEN <<DQ, "1">>
  ELSE IF kind = "quote2" THEN <<DQ, "1", DQ, ",", " ", DQ, "a", "b">>
  ELSE IF kind = "short" THEN <<DQ, "1", DQ, ",", " ", DQ, "a", DQ>>
  ELSE IF kind = "price"
       THEN <<DQ, "1", DQ, ",", " ", DQ, "a", DQ, ",", " ", DQ, "b", DQ, ",", " ", "x">>
  ELSE IF kind = "nocomma"
       THEN <<DQ, "1", DQ, " ", DQ, "a", DQ, ",", " ", DQ, "b", DQ, ",", " ", "5">>
  ELSE IF kind = "nocommaPrice"
       THEN <<DQ, "1", DQ, ",", " ", DQ, "a", DQ, ",", " ", DQ, "b", DQ, " ",
              "9", "1", ".", "1", "1">>
  ELSE <<>>

InitBook ==
  /\ capacity = 0
  /\ books_array_size = 0
  /\ bookArray = Construct(0).arr
  /\ book = DefaultBook
  /\ sstream = IStream(<<>>)
  /\ last = NoLast

\* stream << b, on a new stream
WriteBook ==
  \E b \in Books :
    /\ sstream' = IStream(FormatBook(b))
    /\ last' = [NoLast EXCEPT !.op = "write", !.arg = b, !.kind = "written"]
    /\ UNCHANGED <<capacity, books_array_size, bookArray, book>>

\* a new stream over a text that is no well-formed record
PutText ==
  \E kind \in TextKinds :
    /\ sstream' = IStream(SampleText(kind))
    /\ last' = [NoLast EXCEPT !.op = "text", !.kind = kind]
    /\ UNCHANGED <<capacity, books_array_size, bookArray, book>>

\* stream >> book; a second read of the same stream is of kind "reread"
ReadBook ==
  \E r \in {ExtractBook(sstream, book)} :
      /\ sstream' = r.s
      /\ book' = r.book
      /\ last' = [NoLast EXCEPT !.op = "read", !.arg = last.arg, !.oldBook = book,
                                !.kind = IF last.op \in {"write", "text"} THEN last.kind
                                         ELSE "reread"]
      /\ UNCHANGED <<capacity, books_array_size, bookArray>>

NextBook == WriteBook \/ PutText \/ ReadBook

SpecBook == InitBook /\ [][NextBook]_vars

-----------------------------------------------------------------------------
(* Properties *)

\* C1: in every state reached by append-all, parse-bulk and load-from-file
\* calls, with any text, the size of the list is within 0 .. capacity.
C1_SizeWithinCapacity == 0 <= books_array_size /\ books_array_size <= capacity

\* a file with more records than the list has slots was loaded
C1_Witness ==
  /\ last.op = "load"
  /\ capacity > 0
  /\ Len(last.recs) > capacity
  /\ books_array_size = capacity

\* C2: parse-bulk of more than c well-formed records into a newly constructed
\* list of capacity c stores the first c records, in order, and leaves the
\* size at c.
C2_ParseBulkFillsNewList ==
  [][(/\ last'.op = "parse"
      /\ last'.opened
      /\ L = Construct(capacity)
      /\ Len(last'.recs) > capacity)
     => (/\ books_array_size' = capacity
         /\ \A i \in 0 .. capacity - 1 : bookArray'[i] = last'.recs[i + 1])]_vars

\* C3: parse-bulk of a text with k < c leading well-formed records leaves the
\* size at k, the k records in slots 0 .. k-1 in order.
C3_ParseBulkShortText ==
  (last.op = "parse" /\ last.opened /\ Len(last.recs) < capacity)
  => (/\ books_array_size = Len(last.recs)
      /\ \A i \in 0 .. Len(last.recs) - 1 : bookArray[i] = last.recs[i + 1])

C5_AppendAll ==
  [][last'.op = "append"
     => LET R == last'.rhs
            n == Min(R.size, capacity - books_array_size)
        IN  /\ capacity' = capacity
            /\ books_array_size' = books_array_size + n
            /\ books_array_size' = Min(capacity, books_array_size + R.size)
            /\ \A i \in 0 .. books_array_size - 1 : bookArray'[i] = bookArray[i]
            /\ \A j \in 0 .. n - 1 : bookArray'[books_array_size + j] = R.arr[j]
            /\ last'.rhsAfter = R]_vars

\* a list of two books was appended to a list with room for one
C5_Witness ==
  /\ last.op = "append"
  /\ last.rhs.size = 2
  /\ capacity = MaxCap
  /\ books_array_size = capacity
  /\ bookArray[capacity - 1] = last.rhs.arr[0]
  /\ bookArray[capacity - 1] # last.rhs.arr[1]
  /\ bookArray[capacity - 2] # DefaultBook

\* C6: find(b) returns the least index in [0, size) of a book whose four
\* fields equal b's, and size() when there is none; slots at size and beyond
\* are not matched.
C6_Find ==
  last.op = "find"
  => LET hits == {i \in 0 .. books_array_size - 1 : bookArray[i] = last.arg}
     IN  last.result = IF hits = {} THEN books_array_size
                       ELSE CHOOSE i \in hits : \A j \in hits : i <= j

\* find of a book that only a stale slot behind the size holds
C6_Witness ==
  /\ last.op = "find"
  /\ last.result = books_array_size
  /\ \E i \in books_array_size .. capacity - 1 : bookArray[i] = last.arg
  /\ last.arg # DefaultBook

\* C7: books with equal strings whose prices differ by less than EPSILON, and
\* not by 0, are equal under == and not unequal under !=, yet find of the
\* second, in a list holding the first at 0 and the second at 1, returns 1.
C7_FindIsExact ==
  \A b1, b2 \in FindArgs :
    (/\ b1.isbn = b2.isbn /\ b1.title = b2.title /\ b1.author = b2.author
     /\ b1.price # b2.price
     /\ Abs(b1.price - b2.price) < EPSILON)
    => /\ BookEq(b1, b2)
       /\ ~BookNe(b1, b2)
       /\ (/\ last.op = "find" /\ last.arg = b2
           /\ books_array_size >= 2 /\ bookArray[0] = b1 /\ bookArray[1] = b2)
          => last.result = 1

\* find(9.99005) in a list holding 9.99 at 0 and 9.99005 at 1
C7_Witness ==
  /\ last.op = "find"
  /\ last.arg = B2
  /\ books_array_size >= 2
  /\ bookArray[0] = B1
  /\ bookArray[1] = B2
  /\ BookEq(B1, B2)
  /\ last.result = 1

\* the texts in which a string or the price cannot be read
Unreadable == {"empty", "quote1", "quote2", "short", "price", "nocomma", "reread"}

\* C8, as amended: a read that fails, also after earlier fields of the record
\* were read, leaves the stream failed and the target with its four previous
\* values; a text whose string or price cannot be read fails; the delimiter
\* is any one character, so a record with a space for its last comma is read,
\* the first digit of its price taken for the delimiter.
C8_Transactional ==
  last.op = "read"
  => /\ sstream.fail => book = last.oldBook
     /\ last.kind \in Unreadable => sstream.fail
     /\ last.kind = "nocommaPrice"
        => ~sstream.fail /\ book = Book(<<"a">>, <<"b">>, <<"1">>, 111000)

\* a read that fails in the title, the isbn read, with a target that held a
\* book before
C8_Witness ==
  /\ last.op = "read"
  /\ last.kind = "quote2"
  /\ sstream.fail
  /\ book # DefaultBook
  /\ book = last.oldBook

\* C8, as claimed: a read of a text with malformed quoting, a missing comma or
\* a non-numeric price leaves the stream failed and the target as it was.
C8_AsClaimed ==
  (last.op = "read" /\ last.kind \in TextKinds)
  => sstream.fail /\ book = last.oldBook

\* C9: reading the text written for a book b succeeds and gives a book equal
\* to b under ==: the same strings, the price within EPSILON.
C9_RoundTrip ==
  (last.op = "read" /\ last.kind = "written")
  => ~sstream.fail /\ BookEq(book, last.arg)

\* C10: L += L appends the books L held when the call started, each once, so
\* the size of L becomes min(capacity, 2 * old size).
C10_SelfAppend ==
  [][last'.op = "appendSelf"
     => /\ books_array_size' = Min(capacity, 2 * books_array_size)
        /\ \A i \in 0 .. books_array_size - 1 : bookArray'[i] = bookArray[i]
        /\ \A j \in 0 .. (books_array_size' - books_array_size) - 1 :
             bookArray'[books_array_size + j] = bookArray[j]]_vars

====
